---- MODULE Spec2Model ----
(***************************************************************************)
(* Generation pipeline controller and outline word-count allocator of      *)
(* Click-To-Assignment (ai_pipeline/utils.py, ai_pipeline/views.py,        *)
(* ai_pipeline/services.py, marketing/views.py).                           *)
(*                                                                         *)
(* One job and its seven artifacts.  Every HTTP request handler is one     *)
(* action.  The outcome of the external text-generation service is an      *)
(* input of the action.  The variable `last` records what the last         *)
(* request did (the calls it issued, the results it returned).             *)
(***************************************************************************)
EXTENDS Integers, Sequences, FiniteSets, TLC

VARIABLES status, is_approved, art, last, ops, outline, req, other, hint, draft

vars == <<status, is_approved, art, last, ops, outline, req, other, hint, draft>>

----------------------------------------------------------------------------
(* Bounds                                                                  *)

\* generation_count of the two reports has no cap in the per-stage views;
\* the model stops counting here
MaxCount == 5

\* the number of requests a behaviour handles
MaxOps == 4

\* the number of runs in sequence that a behaviour lets succeed
MaxSeqRuns == 5

\* requests that are in flight at once on one artifact
MaxReqs == 2

----------------------------------------------------------------------------
(* Stages and statuses                                                     *)

NumStages == 7
Stages == 1..NumStages

\* index of the merged document in the stage order
FULL_CONTENT == 5
PLAGIARISM == 6
AI_REPORT == 7

MARKETING_GENERATION_LIMIT == 3

\* the status a stage's approved artifact stands for, in stage order
PIPELINE_STATUS_ORDER ==
    <<"JOB_SUMMARY", "JOB_STRUCTURE", "CONTENT", "REFERENCES",
      "FULL_CONTENT", "PLAGIARISM_REPORT", "AI_REPORT">>

STATUS_SEQUENCE ==
    <<"PENDING", "IN_PROGRESS", "JOB_SUMMARY", "JOB_STRUCTURE", "CONTENT",
      "REFERENCES", "FULL_CONTENT", "PLAGIARISM_REPORT", "AI_REPORT",
      "REWORK", "REWORK_COMPLETED", "COMPLETED", "APPROVED">>

TERMINAL_STATUSES == {"REJECTED"}

\* Job.STATUS_CHOICES
STATUS_CHOICES == {STATUS_SEQUENCE[i] : i \in 1..Len(STATUS_SEQUENCE)} \cup {"REJECTED"}

\* STATUS_RANK = {name: idx for idx, name in enumerate(STATUS_SEQUENCE)}
RankTable ==
    [name \in {STATUS_SEQUENCE[i] : i \in 1..Len(STATUS_SEQUENCE)} |->
        (CHOOSE i \in 1..Len(STATUS_SEQUENCE) : STATUS_SEQUENCE[i] = name) - 1]

\* STATUS_RANK.get(name, -1)
STATUS_RANK(name) == IF name \in DOMAIN RankTable THEN RankTable[name] ELSE -1

\* max_status without the rank comparison
max_status_candidate(current, candidate) == candidate

max_status(current, candidate) ==
    IF STATUS_RANK(candidate) > STATUS_RANK(current) THEN candidate ELSE current

----------------------------------------------------------------------------
(* Artifacts                                                               *)

\* a row that does not exist
NoArtifact == [exists |-> FALSE, count |-> 0, approved |-> FALSE, text |-> 0]


can_regenerate(a) == a.count < 3

\* is_approved = True on a row
Approved(a) == [a EXCEPT !.approved = TRUE]

\* a recomputation that does not look at the artifacts
SyncedStatus_job_only(st, japproved, arts) ==
    IF japproved THEN "APPROVED" ELSE st

\* the new_status of sync_job_status for a job with status st
SyncedStatus(st, japproved, arts) ==
    LET start == IF STATUS_RANK(st) >= 0 THEN st ELSE "PENDING"
        F[k \in 0..NumStages] ==
            IF k = 0 THEN start
            ELSE IF arts[k].exists /\ arts[k].approved
                 THEN max_status(F[k - 1], PIPELINE_STATUS_ORDER[k])
                 ELSE F[k - 1]
    IN  IF japproved THEN "APPROVED" ELSE F[NumStages]

\* sync_job_status without the early return for terminal statuses
sync_job_status_no_terminal(st, japproved, arts) == SyncedStatus(st, japproved, arts)

\* job.status after sync_job_status(job)
sync_job_status(st, japproved, arts) ==
    IF st \in TERMINAL_STATUSES THEN st ELSE SyncedStatus(st, japproved, arts)

Max(S) == CHOOSE x \in S : \A y \in S : y <= x

\* get_regeneration_usage that reads regeneration_count alone, and so misses
\* the generation_count of the two reports
get_regeneration_usage_regen_only(arts) ==
    LET counts == {arts[k].count : k \in {j \in 1..FULL_CONTENT : arts[j].exists}}
    IN  IF counts = {} THEN 0 ELSE Max(counts)

get_regeneration_usage(arts) ==
    LET counts == {arts[k].count : k \in {j \in Stages : arts[j].exists}}
    IN  IF counts = {} THEN 0 ELSE Max(counts)

----------------------------------------------------------------------------
(* run_marketing_pipeline                                                  *)

\* a run that starts the counter of every stage it regenerates again at 0
RunSaved_counter_reset(a, k) ==
    [exists   |-> TRUE,
     count    |-> 0,
     approved |-> IF k = FULL_CONTENT THEN a.approved ELSE TRUE,
     text     |-> a.text + 1]

\* what the run saves for stage k: the generated text, and the approval by
\* the actor for every stage but the merged document
RunSaved(a, k) ==
    [exists   |-> TRUE,
     count    |-> IF a.exists THEN a.count + 1 ELSE 0,
     approved |-> IF k = FULL_CONTENT THEN a.approved ELSE TRUE,
     text     |-> a.text + 1]

RunResult(st, arts, ok, results, calls, err) ==
    [status |-> st, art |-> arts, success |-> ok, results |-> results,
     calls |-> calls, error |-> err]

\* the stage blocks without the return on a failed generation: the failed
\* stage is skipped and the later stages run
RECURSIVE RunStagesNoStop(_, _, _, _, _, _, _)
RunStagesNoStop(k, st, japproved, arts, failAt, results, calls) ==
    IF k > NumStages
    THEN RunResult(st, arts, failAt > NumStages, results, calls,
                   IF failAt > NumStages THEN "none" ELSE "generation")
    ELSE IF failAt = k
    THEN RunStagesNoStop(k + 1, st, japproved, arts, failAt, results, Append(calls, k))
    ELSE RunStagesNoStop(k + 1, PIPELINE_STATUS_ORDER[k], japproved,
                         [arts EXCEPT ![k] = RunSaved(arts[k], k)],
                         failAt, Append(results, k), Append(calls, k))

\* the stage blocks of run_marketing_pipeline from stage k on; failAt is the
\* first stage whose generation call returns an error or nothing
RECURSIVE RunStages(_, _, _, _, _, _, _)
RunStages(k, st, japproved, arts, failAt, results, calls) ==
    IF k > NumStages
    THEN RunResult(sync_job_status(st, japproved, arts), arts, TRUE, results, calls, "none")
    ELSE IF arts[k].exists /\ ~can_regenerate(arts[k])
    THEN RunResult(st, arts, FALSE, results, calls, "stage_limit")
    ELSE IF failAt = k
    THEN RunResult(st, arts, FALSE, results, Append(calls, k), "generation")
    ELSE RunStages(k + 1, PIPELINE_STATUS_ORDER[k], japproved,
                   [arts EXCEPT ![k] = RunSaved(arts[k], k)],
                   failAt, Append(results, k), Append(calls, k))

\* a run that is a transaction: a failed generation restores the artifacts
\* the run found
run_marketing_pipeline_atomic(st, japproved, arts, failAt) ==
    LET r == RunStages(1, st, japproved, arts, failAt, <<>>, <<>>)
    IN  IF get_regeneration_usage(arts) >= MARKETING_GENERATION_LIMIT
        THEN RunResult(st, arts, FALSE, <<>>, <<>>, "limit")
        ELSE IF r.success THEN r ELSE [r EXCEPT !.art = arts]

run_marketing_pipeline(st, japproved, arts, failAt) ==
    IF get_regeneration_usage(arts) >= MARKETING_GENERATION_LIMIT
    THEN RunResult(st, arts, FALSE, <<>>, <<>>, "limit")
    ELSE RunStages(1, st, japproved, arts, failAt, <<>>, <<>>)

----------------------------------------------------------------------------
(* State                                                                   *)

Last(op, stage, ok, results, calls, err) ==
    [op |-> op, stage |-> stage, success |-> ok, results |-> results,
     calls |-> calls, error |-> err]

\* every request counts against the bound on the length of a behaviour
Tick == ops < MaxOps /\ ops' = ops + 1

\* a job as the job drop form creates it: no artifact yet
NewJob ==
    [status |-> "PENDING", is_approved |-> FALSE, art |-> [k \in Stages |-> NoArtifact]]

\* the same job after one complete pipeline run (run_pipeline) and the
\* approval of its merged document (approve_full_content)
DeliveredJob ==
    LET r    == run_marketing_pipeline("IN_PROGRESS", FALSE, NewJob.art, NumStages + 1)
        arts == [r.art EXCEPT ![FULL_CONTENT] = Approved(@)]
    IN  [status |-> sync_job_status(r.status, FALSE, arts), is_approved |-> FALSE,
         art |-> arts]

\* no outline text is under allocation
NoOutline ==
    [input |-> <<>>, target |-> 0, text |-> <<>>, runs |-> 0, raised |-> FALSE]

InitJob(j) ==
    /\ status = j.status
    /\ is_approved = j.is_approved
    /\ art = j.art
    /\ last = Last("init", 0, TRUE, <<>>, <<>>, "none")
    /\ ops = 0

\* the requests that may be in flight at once
Reqs == 1..MaxReqs

\* no request is in flight: none has loaded a row
NoRequests ==
    [r \in Reqs |-> [pc |-> "idle", row |-> NoArtifact, stage |-> 0,
                     status |-> "PENDING", art |-> [k \in Stages |-> NoArtifact]]]

\* the second job of the store: job is its record next to the first job,
\* solo is its record in a store where only its own requests are handled
TwoJobs(j) == [job |-> j, solo |-> j]

\* the second job receives no request
NoOther == TwoJobs(NewJob)

\* no word count was found in a text
NoCount == [kind |-> "none", lo |-> 0, hi |-> 0]

\* no text is under extraction
NoHint == [text |-> <<>>, result |-> NoCount, calls |-> 0, word_count |-> 0]

\* the generation service returned nothing
NoResponse == [empty |-> TRUE, hash |-> "none", words |-> 0, id |-> 0]

\* generate_content has not been called
NoDraft ==
    [structure |-> FALSE, target |-> 0, first |-> NoResponse, second |-> NoResponse,
     calls |-> <<>>, result |-> NoResponse, error |-> "none", done |-> FALSE]

\* no service function is under call
NoService == hint = NoHint /\ draft = NoDraft

Init ==
    InitJob(NewJob) /\ outline = NoOutline /\ req = NoRequests /\ other = NoOther /\ NoService

InitDelivered ==
    InitJob(DeliveredJob) /\ outline = NoOutline /\ req = NoRequests /\ other = NoOther /\ NoService

\* marketing.views.run_pipeline; failAt = NumStages + 1: no call fails
run_pipeline(failAt) ==
    /\ Tick
    /\ IF get_regeneration_usage(art) >= MARKETING_GENERATION_LIMIT
       THEN /\ UNCHANGED <<status, art>>
            /\ last' = Last("run_pipeline", 0, FALSE, <<>>, <<>>, "limit")
       ELSE LET r == run_marketing_pipeline("IN_PROGRESS", is_approved, art, failAt)
                st == IF r.success THEN r.status ELSE "PENDING"
            IN  /\ art' = r.art
                /\ status' = sync_job_status(st, is_approved, r.art)
                /\ last' = Last("run_pipeline", failAt, r.success, r.results, r.calls, r.error)
    /\ UNCHANGED <<is_approved, outline, req, other, hint, draft>>

\* a call of sync_job_status(job) on its own (the dashboards and job lists)
advanceStatus ==
    /\ Tick
    /\ status' = sync_job_status(status, is_approved, art)
    /\ last' = Last("sync_job_status", 0, TRUE, <<>>, <<>>, "none")
    /\ UNCHANGED <<is_approved, art, outline, req, other, hint, draft>>

----------------------------------------------------------------------------
(* Step-by-step generation views (ai_pipeline/views.py)                    *)

\* a save that puts the regenerated text back to review
ViewSaved_unapproved(a) ==
    [exists   |-> TRUE,
     count    |-> IF a.exists THEN a.count + 1 ELSE 0,
     approved |-> FALSE,
     text     |-> a.text + 1]

\* what a step-by-step view saves: new text, counter incremented on an
\* existing row, approval fields untouched
ViewSaved(a) ==
    [exists   |-> TRUE,
     count    |-> IF a.exists THEN a.count + 1 ELSE 0,
     approved |-> a.approved,
     text     |-> a.text + 1]

\* the body shared by the five generate views of SUMMARY..FULL_CONTENT:
\* pre is the outcome of the view's predecessor check, crash says that the
\* arguments of the generation call cannot be evaluated, gen_ok is the
\* outcome of the generation call
GenerateView(op, k, pre, crash, gen_ok) ==
    /\ Tick
    /\ IF pre # "none"
       THEN /\ art' = art
            /\ last' = Last(op, k, FALSE, <<>>, <<>>, pre)
       ELSE IF art[k].exists /\ art[k].count >= 3
       THEN /\ art' = art
            /\ last' = Last(op, k, FALSE, <<>>, <<>>, "stage_limit")
       ELSE IF crash
       THEN /\ art' = art
            /\ last' = Last(op, k, FALSE, <<>>, <<>>, "exception")
       ELSE IF ~gen_ok
       THEN /\ art' = art
            /\ last' = Last(op, k, FALSE, <<>>, <<k>>, "generation")
       ELSE /\ art' = [art EXCEPT ![k] = ViewSaved(art[k])]
            /\ last' = Last(op, k, TRUE, <<k>>, <<k>>, "none")
    /\ UNCHANGED <<status, is_approved, outline, req, other, hint, draft>>

generate_job_summary_view(gen_ok) ==
    GenerateView("generate_job_summary_view", 1, "none", FALSE, gen_ok)

\* job.summary is None when there is no summary: the attribute access raises
\* AttributeError, which the view does not catch
generate_job_structure_view(gen_ok) ==
    GenerateView("generate_job_structure_view", 2,
                 IF ~art[1].exists THEN "exception"
                 ELSE IF ~art[1].approved THEN "precondition" ELSE "none",
                 FALSE, gen_ok)

\* generate_content_view that checks only that a structure exists
generate_content_view_unapproved(gen_ok) ==
    GenerateView("generate_content_view", 3,
                 IF ~art[2].exists THEN "precondition" ELSE "none",
                 FALSE, gen_ok)

generate_content_view(gen_ok) ==
    GenerateView("generate_content_view", 3,
                 IF ~art[2].exists \/ ~art[2].approved THEN "precondition" ELSE "none",
                 FALSE, gen_ok)

generate_references_view(gen_ok) ==
    GenerateView("generate_references_view", 4,
                 IF ~art[3].exists \/ ~art[3].approved THEN "precondition" ELSE "none",
                 ~art[1].exists, gen_ok)

generate_full_content_view(gen_ok) ==
    GenerateView("generate_full_content_view", 5,
                 IF ~art[3].exists \/ ~art[4].exists THEN "precondition"
                 ELSE IF ~(art[3].approved /\ art[4].approved) THEN "precondition"
                 ELSE "none",
                 ~art[1].exists, gen_ok)

\* what the two report views save after get_or_create
ReportSaved(a) ==
    [exists   |-> TRUE,
     count    |-> a.count + 1,
     approved |-> TRUE,
     text     |-> a.text + 1]

\* the body shared by generate_plagiarism_report and generate_ai_report
ReportView(op, k, gen_ok) ==
    /\ Tick
    /\ art[k].count < MaxCount
    /\ IF ~art[FULL_CONTENT].exists \/ ~art[FULL_CONTENT].approved
       THEN /\ UNCHANGED <<art, status>>
            /\ last' = Last(op, k, FALSE, <<>>, <<>>, "precondition")
       ELSE IF ~gen_ok
       THEN /\ UNCHANGED <<art, status>>
            /\ last' = Last(op, k, FALSE, <<>>, <<k>>, "generation")
       ELSE LET arts == [art EXCEPT ![k] = ReportSaved(art[k])]
            IN  /\ art' = arts
                /\ status' = sync_job_status(status, is_approved, arts)
                /\ last' = Last(op, k, TRUE, <<k>>, <<k>>, "none")
    /\ UNCHANGED <<is_approved, outline, req, other, hint, draft>>

generate_plagiarism_report(gen_ok) ==
    ReportView("generate_plagiarism_report", PLAGIARISM, gen_ok)

generate_ai_report(gen_ok) ==
    ReportView("generate_ai_report", AI_REPORT, gen_ok)

----------------------------------------------------------------------------
(* Approval views (ai_pipeline/views.py)                                   *)

\* the body shared by the step-by-step approve views; forced is the status
\* the view writes after sync_job_status, "" when it writes none
ApproveView(op, k, forced) ==
    /\ Tick
    /\ IF ~art[k].exists
       THEN /\ UNCHANGED <<art, status>>
            /\ last' = Last(op, k, FALSE, <<>>, <<>>, "not_found")
       ELSE LET arts == [art EXCEPT ![k] = Approved(art[k])]
            IN  /\ art' = arts
                /\ status' = IF forced # "" THEN forced
                             ELSE sync_job_status(status, is_approved, arts)
                /\ last' = Last(op, k, TRUE, <<>>, <<>>, "none")
    /\ UNCHANGED <<is_approved, outline, req, other, hint, draft>>

approve_job_summary == ApproveView("approve_job_summary", 1, "")
approve_job_structure == ApproveView("approve_job_structure", 2, "")
approve_content == ApproveView("approve_content", 3, "CONTENT")
approve_references == ApproveView("approve_references", 4, "REFERENCES")
approve_full_content == ApproveView("approve_full_content", FULL_CONTENT, "")

\* the approve view of the full-page content screens, for any stage; it
\* approves the job itself once all seven artifacts are approved
ai_content_approve(k) ==
    /\ Tick
    /\ IF ~art[k].exists
       THEN /\ UNCHANGED <<art, status, is_approved>>
            /\ last' = Last("ai_content_approve", k, FALSE, <<>>, <<>>, "not_found")
       ELSE IF art[k].approved
       THEN /\ UNCHANGED <<art, status, is_approved>>
            /\ last' = Last("ai_content_approve", k, FALSE, <<>>, <<>>, "already_approved")
       ELSE LET arts == [art EXCEPT ![k] = Approved(art[k])]
                all  == \A j \in Stages : arts[j].exists /\ arts[j].approved
                ja   == IF all THEN TRUE ELSE is_approved
                st   == IF all THEN "APPROVED" ELSE status
            IN  /\ art' = arts
                /\ is_approved' = ja
                /\ status' = sync_job_status(st, ja, arts)
                /\ last' = Last("ai_content_approve", k, TRUE, <<>>, <<>>, "none")
    /\ UNCHANGED <<outline, req, other, hint, draft>>

----------------------------------------------------------------------------
(* The external workflow: commands that set the job's status and the       *)
(* approval flags directly (rework requests, job approval, the admin site) *)

\* the statuses the external workflow commands: a rework request and the
\* rejection of the job
ExternalStatuses == {"REWORK", "REJECTED"}

ExternalSetStatus(s) ==
    /\ Tick
    /\ status' = s
    /\ last' = Last("external", 0, TRUE, <<>>, <<>>, "none")
    /\ UNCHANGED <<is_approved, art, outline, req, other, hint, draft>>

ExternalSetJobApproved(b) ==
    /\ Tick
    /\ is_approved' = b
    /\ last' = Last("external", 0, TRUE, <<>>, <<>>, "none")
    /\ UNCHANGED <<status, art, outline, req, other, hint, draft>>

\* one request of the pipeline controller or command of the external workflow
Next ==
    \/ \E f \in 1..(NumStages + 1) : run_pipeline(f)
    \/ advanceStatus
    \/ \E g \in BOOLEAN : generate_job_summary_view(g)
    \/ \E g \in BOOLEAN : generate_job_structure_view(g)
    \/ \E g \in BOOLEAN : generate_content_view(g)
    \/ \E g \in BOOLEAN : generate_references_view(g)
    \/ \E g \in BOOLEAN : generate_full_content_view(g)
    \/ \E g \in BOOLEAN : generate_plagiarism_report(g)
    \/ \E g \in BOOLEAN : generate_ai_report(g)
    \/ approve_job_summary
    \/ approve_job_structure
    \/ approve_content
    \/ approve_references
    \/ approve_full_content
    \/ \E k \in Stages : ai_content_approve(k)
    \/ \E s \in ExternalStatuses : ExternalSetStatus(s)
    \/ \E b \in BOOLEAN : ExternalSetJobApproved(b)

Spec == Init /\ [][Next]_vars

\* the requests that follow the delivery of a job
SpecDelivered == InitDelivered /\ [][Next]_vars
----------------------------------------------------------------------------
(* Runs of the pipeline in sequence on one job, and no other request: each *)
(* run_pipeline returns before the next one starts. ops counts the runs    *)
(* that succeeded                                                          *)

run_pipeline_in_sequence(failAt) ==
    /\ ops < MaxSeqRuns
    /\ IF get_regeneration_usage(art) >= MARKETING_GENERATION_LIMIT
       THEN /\ UNCHANGED <<status, art, ops>>
            /\ last' = Last("run_pipeline", 0, FALSE, <<>>, <<>>, "limit")
       ELSE LET r == run_marketing_pipeline("IN_PROGRESS", is_approved, art, failAt)
                st == IF r.success THEN r.status ELSE "PENDING"
            IN  /\ art' = r.art
                /\ status' = sync_job_status(st, is_approved, r.art)
                /\ ops' = IF r.success THEN ops + 1 ELSE ops
                /\ last' = Last("run_pipeline", failAt, r.success, r.results, r.calls, r.error)
    /\ UNCHANGED <<is_approved, outline, req, other, hint, draft>>

InitSequence == Init

NextSequence == \E f \in 1..(NumStages + 1) : run_pipeline_in_sequence(f)

SpecSequence == InitSequence /\ [][NextSequence]_vars
----------------------------------------------------------------------------
(* Requests in flight at once: generate_job_summary_view handled by        *)
(* several workers for one job. Each worker loads the summary row, checks  *)
(* and increments the counter on its own copy, calls the generation        *)
(* service and saves its copy; nothing locks the row in between            *)

\* a save that increments the counter in the database row
RequestSaved_atomic(stored, loaded) ==
    [ViewSaved(loaded) EXCEPT !.count = stored.count + 1]

\* job_summary.save() writes the worker's copy over the stored row
RequestSaved(stored, loaded) ==
    ViewSaved(loaded)

\* getattr(job, 'summary', None), the limit check and the increment of the
\* copy; row keeps the row as loaded
generate_job_summary_view_load(r) ==
    /\ req[r].pc = "idle"
    /\ req' = [req EXCEPT ![r].pc = IF art[1].exists /\ art[1].count >= 3
                                    THEN "refused" ELSE "checked",
                           ![r].row = art[1]]
    /\ UNCHANGED <<status, is_approved, art, last, ops, outline, other, hint, draft>>

\* the call of generate_job_summary; an error ends the request unsaved
generate_job_summary_view_call(r, gen_ok) ==
    /\ req[r].pc = "checked"
    /\ req' = [req EXCEPT ![r].pc = IF gen_ok THEN "generated" ELSE "failed"]
    /\ UNCHANGED <<status, is_approved, art, last, ops, outline, other, hint, draft>>

\* job_summary.save()
generate_job_summary_view_save(r) ==
    /\ req[r].pc = "generated"
    /\ art' = [art EXCEPT ![1] = RequestSaved(art[1], req[r].row)]
    /\ req' = [req EXCEPT ![r].pc = "saved"]
    /\ UNCHANGED <<status, is_approved, last, ops, outline, other, hint, draft>>

\* a job whose summary exists, with any counter up to the limit
SummarisedJob(c, a) ==
    [NewJob EXCEPT !.art[1] = [exists |-> TRUE, count |-> c, approved |-> a, text |-> 1]]

InitRace ==
    /\ \E c \in 0..MARKETING_GENERATION_LIMIT, a \in BOOLEAN : InitJob(SummarisedJob(c, a))
    /\ outline = NoOutline
    /\ req = NoRequests
    /\ other = NoOther
    /\ NoService

NextRace ==
    \/ \E r \in Reqs : generate_job_summary_view_load(r)
    \/ \E r \in Reqs, g \in BOOLEAN : generate_job_summary_view_call(r, g)
    \/ \E r \in Reqs : generate_job_summary_view_save(r)

SpecRace == InitRace /\ [][NextRace]_vars
----------------------------------------------------------------------------
(* run_pipeline requests in flight at once for one job.  A request loads    *)
(* the job, reads the seven artifact rows for the usage check (Django       *)
(* keeps a row that exists on the job object from then on), writes          *)
(* IN_PROGRESS, runs the stage blocks one after the other, and ends in the  *)
(* finally clause of the view.  req[r].status is job.status of the          *)
(* request's job object, req[r].art the rows it holds; is_approved of the   *)
(* job does not change while the requests run                               *)

\* the row of stage k as request r sees it: the row it loaded or saved, and
\* the row of the database when it holds none
RowOf(r, k) == IF req[r].art[k].exists THEN req[r].art[k] ELSE art[k]

\* the checks of run_pipeline before it writes IN_PROGRESS: the usage check
\* alone (job.is_deleted and the request method aside)
may_start_run(st, arts) ==
    get_regeneration_usage(arts) < MARKETING_GENERATION_LIMIT

\* run_pipeline up to job.save(update_fields=['status'])
run_pipeline_start(r) ==
    /\ req[r].pc = "idle"
    /\ IF ~may_start_run(status, art)
       THEN /\ req' = [req EXCEPT ![r].pc = "refused"]
            /\ UNCHANGED status
       ELSE /\ req' = [req EXCEPT ![r].pc = "running", ![r].stage = 1,
                                  ![r].status = "IN_PROGRESS", ![r].art = art]
            /\ status' = "IN_PROGRESS"
    /\ UNCHANGED <<is_approved, art, last, ops, outline, other, hint, draft>>

\* one stage block of run_marketing_pipeline; outcome is what the generation
\* step does: "ok", "error" (it returns an error or nothing) or "raise" (an
\* exception leaves run_marketing_pipeline)
run_pipeline_stage(r, outcome) ==
    LET k     == req[r].stage
        row   == RowOf(r, k)
        saved == RunSaved(row, k)
        rows  == [req[r].art EXCEPT ![k] = saved]
        st    == IF k = NumStages
                 THEN sync_job_status(PIPELINE_STATUS_ORDER[k], is_approved,
                                      [j \in Stages |-> IF rows[j].exists THEN rows[j]
                                                        ELSE art[j]])
                 ELSE PIPELINE_STATUS_ORDER[k]
    IN  /\ req[r].pc = "running"
        /\ IF (row.exists /\ ~can_regenerate(row)) \/ outcome = "error"
           THEN /\ req' = [req EXCEPT ![r].pc = "failed"]
                /\ UNCHANGED <<art, status>>
           ELSE IF outcome = "raise"
           THEN /\ req' = [req EXCEPT ![r].pc = "raised"]
                /\ UNCHANGED <<art, status>>
           ELSE /\ art' = [art EXCEPT ![k] = saved]
                /\ status' = st
                /\ req' = [req EXCEPT ![r].art = rows, ![r].status = st,
                                      ![r].stage = k + 1,
                                      ![r].pc = IF k = NumStages THEN "succeeded"
                                                ELSE "running"]
        /\ UNCHANGED <<is_approved, last, ops, outline, other, hint, draft>>

\* the end of run_pipeline: PENDING after a failed run, and sync_job_status
\* in the finally clause, which saves the status only when it changes it
run_pipeline_finish(r) ==
    LET mem == IF req[r].pc = "failed" THEN "PENDING" ELSE req[r].status
        new == sync_job_status(mem, is_approved, [k \in Stages |-> RowOf(r, k)])
    IN  /\ req[r].pc \in {"failed", "raised", "succeeded"}
        /\ status' = IF new # mem \/ req[r].pc = "failed" THEN new ELSE status
        /\ req' = [req EXCEPT ![r].pc = "done", ![r].status = new]
        /\ UNCHANGED <<is_approved, art, last, ops, outline, other, hint, draft>>

Outcomes == {"ok", "error", "raise"}

\* the job after n complete runs of the pipeline, none of its merged
\* documents approved
RECURSIVE JobAfterRuns(_)
JobAfterRuns(n) ==
    IF n = 0 THEN NewJob
    ELSE LET j == JobAfterRuns(n - 1)
             r == run_marketing_pipeline("IN_PROGRESS", j.is_approved, j.art, NumStages + 1)
         IN  [status |-> sync_job_status(r.status, j.is_approved, r.art),
              is_approved |-> j.is_approved, art |-> r.art]

InitRuns ==
    /\ \E j \in {NewJob, DeliveredJob, JobAfterRuns(MARKETING_GENERATION_LIMIT)} : InitJob(j)
    /\ outline = NoOutline
    /\ req = NoRequests
    /\ other = NoOther
    /\ NoService

NextRuns ==
    \/ \E r \in Reqs : run_pipeline_start(r)
    \/ \E r \in Reqs, o \in Outcomes : run_pipeline_stage(r, o)
    \/ \E r \in Reqs : run_pipeline_finish(r)

SpecRuns == InitRuns /\ [][NextRuns]_vars
----------------------------------------------------------------------------
(* Two jobs in one store. The handlers take the job id of the request,     *)
(* load that job and its artifact rows, and save them back; the first job  *)
(* is the one of status, is_approved and art, the second the one of other. *)
(* The only module-level state of the pipeline is the OpenAI client of     *)
(* services._get_openai_client, which holds the API key and no job data:   *)
(* the outcome of a generation call is an input of each request            *)

JobIds == {"A", "B"}

\* a lookup that ignores the job id and returns the first row of the table
JobRows_unfiltered(store, id) ==
    store["A"]

\* get_object_or_404(Job, id=job_id) and the one-to-one rows of that job
JobRows(store, id) ==
    store[id]

\* marketing.views.run_pipeline for the job id
JobRunPipeline(store, id, failAt) ==
    LET j  == JobRows(store, id)
        r  == run_marketing_pipeline("IN_PROGRESS", j.is_approved, j.art, failAt)
        st == IF r.success THEN r.status ELSE "PENDING"
    IN  IF get_regeneration_usage(j.art) >= MARKETING_GENERATION_LIMIT
        THEN store
        ELSE [store EXCEPT ![id] = [status |-> sync_job_status(st, j.is_approved, r.art),
                                    is_approved |-> j.is_approved,
                                    art |-> r.art]]

\* sync_job_status(job) for the job id
JobSyncStatus(store, id) ==
    LET j == JobRows(store, id)
    IN  [store EXCEPT ![id] = [j EXCEPT !.status = sync_job_status(j.status, j.is_approved, j.art)]]

\* generate_job_summary_view for the job id
JobGenerateSummary(store, id, gen_ok) ==
    LET j == JobRows(store, id)
    IN  IF (j.art[1].exists /\ j.art[1].count >= 3) \/ ~gen_ok
        THEN store
        ELSE [store EXCEPT ![id] = [j EXCEPT !.art[1] = ViewSaved(j.art[1])]]

\* ai_content_approve for the job id and stage k
JobContentApprove(store, id, k) ==
    LET j    == JobRows(store, id)
        arts == [j.art EXCEPT ![k] = Approved(j.art[k])]
        all  == \A i \in Stages : arts[i].exists /\ arts[i].approved
        ja   == IF all THEN TRUE ELSE j.is_approved
        st   == IF all THEN "APPROVED" ELSE j.status
    IN  IF ~j.art[k].exists \/ j.art[k].approved
        THEN store
        ELSE [store EXCEPT ![id] = [status |-> sync_job_status(st, ja, arts),
                                    is_approved |-> ja,
                                    art |-> arts]]

\* the two jobs as the database holds them
Store ==
    [id \in JobIds |->
        IF id = "A" THEN [status |-> status, is_approved |-> is_approved, art |-> art]
        ELSE other.job]

\* the database of the second job alone
SoloStore ==
    [id \in JobIds |-> IF id = "A" THEN NewJob ELSE other.solo]

\* one request for the second job: s is the store the handler leaves, t the
\* store it leaves when the second job is alone
OtherRequest(s, t) ==
    /\ Tick
    /\ other' = [job |-> s["B"], solo |-> t["B"]]
    /\ status' = s["A"].status
    /\ is_approved' = s["A"].is_approved
    /\ art' = s["A"].art
    /\ UNCHANGED <<last, outline, req, hint, draft>>

other_run_pipeline(failAt) ==
    OtherRequest(JobRunPipeline(Store, "B", failAt), JobRunPipeline(SoloStore, "B", failAt))

other_advanceStatus ==
    OtherRequest(JobSyncStatus(Store, "B"), JobSyncStatus(SoloStore, "B"))

other_generate_job_summary_view(gen_ok) ==
    OtherRequest(JobGenerateSummary(Store, "B", gen_ok),
                 JobGenerateSummary(SoloStore, "B", gen_ok))

other_ai_content_approve(k) ==
    OtherRequest(JobContentApprove(Store, "B", k), JobContentApprove(SoloStore, "B", k))

InitJobs ==
    /\ InitJob(NewJob)
    /\ outline = NoOutline
    /\ req = NoRequests
    /\ other = TwoJobs(NewJob)
    /\ NoService

NextJobs ==
    \/ Next
    \/ \E f \in 1..(NumStages + 1) : other_run_pipeline(f)
    \/ other_advanceStatus
    \/ \E g \in BOOLEAN : other_generate_job_summary_view(g)
    \/ \E k \in Stages : other_ai_content_approve(k)

SpecJobs == InitJobs /\ [][NextJobs]_vars
----------------------------------------------------------------------------
(* Outline allocator: services._rebalance_structure_text                   *)

\* A line of an outline.  kind: "text" (a line without a count), "total"
\* (the Total Word Count line), "main" ("n. Title - c words"), "sub"
\* ("n.m Title - c words"), "deep" ("n.m.k Title - c words", which neither
\* heading pattern matches).  name: "intro", "concl", "ignored" (the title
\* holds one of ignore_keys), "plain", and for a text line "title" or
\* "garbled".
Line(kind, num, sub, name, count) ==
    [kind |-> kind, num |-> num, sub |-> sub, name |-> name, count |-> count]

TitleLine == Line("text", 0, 0, "title", 0)

\* f"Total Word Count: {c}"
TotalLine(c) == Line("total", 0, 0, "plain", c)

\* what re.sub leaves of the total line when the digits of the new total
\* turn the template's \1 into an octal escape: neither label nor number
GarbledLine == Line("text", 0, 0, "garbled", 0)

is_ignored(ln) == ln.name = "ignored"

\* first line holding 'total word count'; 0: none
total_idx(lines) ==
    LET T == {i \in DOMAIN lines : lines[i].kind = "total"}
    IN  IF T = {} THEN 0 ELSE CHOOSE i \in T : \A j \in T : i <= j

\* a parse that keeps the top-level lines of the ignored vocabulary
mains_with_ignored(lines) ==
    LET t == total_idx(lines)
    IN  {i \in DOMAIN lines : i # t /\ lines[i].kind = "main"}

\* the lines the parse keeps as top-level sections
mains(lines) ==
    LET t == total_idx(lines)
    IN  {i \in DOMAIN lines : /\ i # t
                              /\ lines[i].kind = "main"
                              /\ ~is_ignored(lines[i])}

\* the lines the parse keeps as children of section pnum
subs(lines, pnum) ==
    LET t == total_idx(lines)
    IN  {i \in DOMAIN lines : /\ i # t
                              /\ lines[i].kind = "sub"
                              /\ lines[i].num = pnum
                              /\ ~is_ignored(lines[i])}

RECURSIVE SumOver(_, _)
SumOver(f, S) ==
    IF S = {} THEN 0
    ELSE LET x == CHOOSE x \in S : TRUE IN f[x] + SumOver(f, S \ {x})

\* the keys of main_counts
MainNums(lines) == {lines[i].num : i \in mains(lines)}

\* the position of key n in the dict: the first section line numbered n
KeyPos(lines) ==
    LET M == mains(lines)
    IN  [n \in MainNums(lines) |->
            CHOOSE i \in M :
                /\ lines[i].num = n
                /\ \A j \in M : lines[j].num = n => i <= j]

SubCounts(lines, pnum) == [i \in subs(lines, pnum) |-> lines[i].count]

\* main_counts before any rescaling: the sum of the children when it is
\* positive, else the section's own count (the last line numbered n wins)
natural_counts(lines) ==
    LET M == mains(lines)
    IN  [n \in MainNums(lines) |->
            LET i == CHOOSE i \in M :
                        /\ lines[i].num = n
                        /\ \A j \in M : lines[j].num = n => j <= i
                S == subs(lines, n)
                subtotal == SumOver(SubCounts(lines, n), S)
            IN  IF S # {} /\ subtotal > 0 THEN subtotal
                ELSE lines[i].count]

\* round(a / b) of Python 3 for a >= 0, b > 0: ties go to the even integer
round_half_even(a, b) ==
    LET q == a \div b
        r == a % b
    IN  IF 2 * r < b THEN q
        ELSE IF 2 * r > b THEN q + 1
        ELSE IF q % 2 = 0 THEN q ELSE q + 1

\* max(1, n)
AtLeastOne(n) == IF n < 1 THEN 1 ELSE n

\* max(K, key=f.get): the first of the largest in iteration order
FirstLargest(f, K, pos) ==
    CHOOSE k \in K :
        \A j \in K \ {k} : f[j] < f[k] \/ (f[j] = f[k] /\ pos[k] < pos[j])

\* scale, round, and push the drift into the largest element
Rescale(f, K, pos, target) ==
    LET total == SumOver(f, K)
        scaled == [k \in K |-> AtLeastOne(round_half_even(f[k] * target, total))]
        drift == target - SumOver(scaled, K)
        largest == FirstLargest(scaled, K, pos)
    IN  IF drift = 0 THEN scaled
        ELSE [scaled EXCEPT ![largest] = AtLeastOne(@ + drift)]

\* _find_main_by_name: the number of the first section of that name; 0: none
find_main_by_name(lines, name) ==
    LET M == {i \in mains(lines) : lines[i].name = name}
    IN  IF M = {} THEN 0
        ELSE lines[CHOOSE i \in M : \A j \in M : i <= j].num

\* no Introduction/Conclusion policy: the counts stay as scaled
enforce_intro_concl_none(mc, K, pos, intro_num, concl_num) == mc

\* Introduction and Conclusion forced to 10% of the total; the drift goes
\* to the largest of the other sections when there is one
enforce_intro_concl(mc, K, pos, intro_num, concl_num) ==
    LET total_main == SumOver(mc, K)
        tenth == AtLeastOne(round_half_even(total_main, 10))
        m1 == IF intro_num \in K THEN [mc EXCEPT ![intro_num] = tenth] ELSE mc
        m2 == IF concl_num \in K THEN [m1 EXCEPT ![concl_num] = tenth] ELSE m1
        remaining_nums == K \ {intro_num, concl_num}
        drift == total_main - SumOver(m2, K)
        adjust_target == FirstLargest(m2, remaining_nums, pos)
    IN  IF total_main <= 0 THEN mc
        ELSE IF remaining_nums = {} \/ drift = 0 THEN m2
        ELSE [m2 EXCEPT ![adjust_target] = AtLeastOne(@ + drift)]

\* main_counts after the rescaling to the target (0: no target) and after
\* the Introduction/Conclusion policy
main_counts(lines, target) ==
    LET K == MainNums(lines)
        nat == natural_counts(lines)
        pos == KeyPos(lines)
        scaled == IF target > 0 THEN Rescale(nat, K, pos, target) ELSE nat
    IN  enforce_intro_concl(scaled, K, pos,
                            find_main_by_name(lines, "intro"),
                            find_main_by_name(lines, "concl"))

\* children that keep their declared counts
sub_counts_unscaled(lines, pnum, mc) == SubCounts(lines, pnum)

\* the children of pnum rescaled to their parent's final count
sub_counts(lines, pnum, mc) ==
    LET S == subs(lines, pnum)
        old == SubCounts(lines, pnum)
    IN  IF pnum \notin DOMAIN mc \/ mc[pnum] = 0 \/ SumOver(old, S) <= 0
        THEN old
        ELSE Rescale(old, S, [i \in S |-> i], mc[pnum])

\* the digits of final_total after the template's \1: a second digit and a
\* third digit in 0..7 make an octal escape, anything else is a reference
\* to a group the pattern does not have, and re.sub raises
RECURSIVE LeadingTwo(_)
LeadingTwo(n) == IF n < 100 THEN n ELSE LeadingTwo(n \div 10)

template_raises(final_total) ==
    \/ final_total < 10
    \/ LeadingTwo(final_total) \div 10 > 7
    \/ LeadingTwo(final_total) % 10 > 7

\* lines.insert(1, ln)
InsertSecond(lines, ln) ==
    <<Head(lines)>> \o <<ln>> \o Tail(lines)

\* the result of the call: raised, or the rewritten text
rebalance_structure_text(lines, target) ==
    LET M == mains(lines)
        K == MainNums(lines)
        t == total_idx(lines)
        mc == main_counts(lines, target)
        final_total == SumOver(mc, K)
        new_subs == [n \in K |-> sub_counts(lines, n, mc)]
        rewritten ==
            [i \in DOMAIN lines |->
                IF i \in M
                THEN [lines[i] EXCEPT !.count = mc[lines[i].num]]
                ELSE IF lines[i].num \in K /\ i \in DOMAIN new_subs[lines[i].num]
                THEN [lines[i] EXCEPT !.count = new_subs[lines[i].num][i]]
                ELSE lines[i]]
    IN  IF lines = <<>> \/ M = {}
           \/ SumOver(natural_counts(lines), K) <= 0
        THEN [raised |-> FALSE, text |-> lines]
        ELSE IF t = 0
        THEN [raised |-> FALSE,
              text |-> InsertSecond(rewritten, TotalLine(final_total))]
        ELSE IF template_raises(final_total)
        THEN [raised |-> TRUE, text |-> lines]
        ELSE [raised |-> FALSE,
              text |-> [rewritten EXCEPT ![t] = GarbledLine]]

----------------------------------------------------------------------------
(* The outlines and targets the allocator is applied to                    *)

\* the largest number of top-level sections between the Introduction and
\* the Conclusion
MaxBody == 2

\* the number of times the allocator is applied to its own result
MaxRuns == 2

\* declared counts of the top-level sections
Counts == {2, 9}

\* expected_total; 0: none supplied
Targets == {0, 1, 10, 1000}

\* a body section, or a section of the ignored vocabulary
Bodies == [name : {"plain", "ignored"}, count : Counts]

\* the sections of an outline: Introduction and Conclusion when their
\* counts are not 0, and the body sections between them
Sections(intro, bodies, concl) ==
    (IF intro > 0 THEN <<[name |-> "intro", count |-> intro]>> ELSE <<>>)
    \o bodies
    \o (IF concl > 0 THEN <<[name |-> "concl", count |-> concl]>> ELSE <<>>)

\* the children of one section: none, two children, the second one an
\* ignored line, or the first one with a child of its own
Children ==
    {[counts |-> <<>>, ignored |-> FALSE, deep |-> FALSE],
     [counts |-> <<2, 3>>, ignored |-> FALSE, deep |-> FALSE],
     [counts |-> <<1, 8>>, ignored |-> FALSE, deep |-> FALSE],
     [counts |-> <<2, 3>>, ignored |-> TRUE, deep |-> FALSE],
     [counts |-> <<2, 3>>, ignored |-> FALSE, deep |-> TRUE]}

\* the section that carries the children: the first body section, or the
\* first section when there is no body section
ParentOf(secs) ==
    LET B == {i \in DOMAIN secs : secs[i].name = "plain"}
    IN  IF B = {} THEN 1 ELSE CHOOSE i \in B : \A j \in B : i <= j

SectionLines(i, sec, ch) ==
    <<Line("main", i, 0, sec.name, sec.count)>>
    \o (IF ch.counts = <<>> THEN <<>>
        ELSE <<Line("sub", i, 1, "plain", ch.counts[1])>>
             \o (IF ch.deep
                 THEN <<Line("deep", i, 1, "plain", ch.counts[1])>>
                 ELSE <<>>)
             \o <<Line("sub", i, 2,
                       IF ch.ignored THEN "ignored" ELSE "plain",
                       ch.counts[2])>>)

RECURSIVE OutlineFrom(_, _, _)
OutlineFrom(i, secs, ch) ==
    IF i > Len(secs) THEN <<>>
    ELSE SectionLines(i, secs[i],
                      IF i = ParentOf(secs) THEN ch
                      ELSE [counts |-> <<>>, ignored |-> FALSE, deep |-> FALSE])
         \o OutlineFrom(i + 1, secs, ch)

\* title, the declared total when the text has one, and the sections
Outline(secs, ch, hasTotal) ==
    <<TitleLine>>
    \o (IF hasTotal
        THEN <<TotalLine(SumOver([i \in DOMAIN secs |-> secs[i].count],
                                 DOMAIN secs))>>
        ELSE <<>>)
    \o OutlineFrom(1, secs, ch)

\* "1. Introduction - 50 words\n2. Body - 50 words\n2.1 Background - 20
\* words\n2.2 Analysis - 30 words\n3. Conclusion - 400 words"
WorkedExample ==
    <<Line("main", 1, 0, "intro", 50),
      Line("main", 2, 0, "plain", 50),
      Line("sub", 2, 1, "plain", 20),
      Line("sub", 2, 2, "plain", 30),
      Line("main", 3, 0, "concl", 400)>>

\* "1. Introduction - a words\n2. Body - b words\n3. Conclusion - c words"
\* under a title line, with declared counts that may be 0
IntroBodyConcl(a, b, c) ==
    <<TitleLine,
      Line("main", 1, 0, "intro", a),
      Line("main", 2, 0, "plain", b),
      Line("main", 3, 0, "concl", c)>>

ZeroCounts == {0, 2}

Outlines ==
    {Outline(Sections(io[1], bodies, io[2]), ch, hasTotal) :
        io \in (Counts \cup {0}) \X (Counts \cup {0}),
        bodies \in UNION {[1..n -> Bodies] : n \in 0..MaxBody},
        ch \in Children, hasTotal \in BOOLEAN}
    \cup {WorkedExample}
    \cup {IntroBodyConcl(abc[1], abc[2], abc[3]) :
            abc \in ZeroCounts \X ZeroCounts \X ZeroCounts}

\* the text before any call
NewOutline(text) ==
    [input |-> text, target |-> 0, text |-> text, runs |-> 0, raised |-> FALSE]

InitAlloc ==
    /\ InitJob(NewJob)
    /\ outline \in {NewOutline(text) : text \in Outlines}
    /\ req = NoRequests
    /\ other = NoOther
    /\ NoService

\* generate_job_structure hands the generated text to the allocator; the
\* allocator is applied again to its own result with the same target
Rebalance(t) ==
    /\ outline.runs < MaxRuns
    /\ ~outline.raised
    /\ outline.runs > 0 => t = outline.target
    /\ LET r == rebalance_structure_text(outline.text, t)
       IN  outline' = [outline EXCEPT !.target = t,
                                      !.text = r.text,
                                      !.runs = @ + 1,
                                      !.raised = r.raised]
    /\ UNCHANGED <<status, is_approved, art, last, ops, req, other, hint, draft>>

NextAlloc == \E t \in Targets : Rebalance(t)

SpecAlloc == InitAlloc /\ [][NextAlloc]_vars
----------------------------------------------------------------------------
(* Word-count hints: services._extract_word_count_hint                     *)
(* A text is a sequence of tokens: a number, one of the words the patterns *)
(* name, another word, white space or a punctuation mark.  Two tokens that *)
(* follow each other are adjacent characters of the text                   *)

\* tokens of a text that is longer than the texts enumerated in full
MaxText == 3

Tok(k, v) == [k |-> k, v |-> v]
Wd(k) == Tok(k, 0)
Num(v) == Tok("num", v)

\* the tokens made of word characters (\w)
WordKinds == {"num", "word", "words", "page", "to", "other", "count", "wc", "limit", "of"}

\* the tokens made of letters
AlphaKinds == WordKinds \ {"num"}

At(t, i) == IF i \in 1..Len(t) THEN t[i] ELSE Wd("end")

\* the number of decimal digits of v
Digits(v) ==
    IF v < 10 THEN 1 ELSE IF v < 100 THEN 2 ELSE IF v < 1000 THEN 3
    ELSE IF v < 10000 THEN 4 ELSE 5

Pow10(n) == IF n = 1 THEN 10 ELSE IF n = 2 THEN 100 ELSE IF n = 3 THEN 1000
            ELSE IF n = 4 THEN 10000 ELSE 100000

\* re.sub(r"(?<=\d),(?=\d)", "", text): a comma between two digits goes and
\* the digits on its two sides become one number
RECURSIVE normalize_commas(_)
normalize_commas(t) ==
    LET I == {i \in 1..(Len(t) - 2) :
                t[i].k = "num" /\ t[i + 1].k = "comma" /\ t[i + 2].k = "num"}
    IN  IF I = {} THEN t
        ELSE LET i == CHOOSE x \in I : \A y \in I : x <= y
                 n == Num(t[i].v * Pow10(Digits(t[i + 2].v)) + t[i + 2].v)
             IN  normalize_commas(SubSeq(t, 1, i - 1) \o <<n>> \o SubSeq(t, i + 3, Len(t)))

\* \s*
RECURSIVE SkipSp(_, _)
SkipSp(t, i) == IF At(t, i).k = "sp" THEN SkipSp(t, i + 1) ELSE i

\* (\d{2,5}) on a number of at most five digits
IsCount(t, i) == At(t, i).k = "num" /\ At(t, i).v \in 10..99999

\* words?
IsWords(t, i) == At(t, i).k \in {"word", "words"}

\* the characters of [–—\-to] a token is made of, 0 for any other token
SepChars(tok) == IF tok.k = "dash" THEN 1 ELSE IF tok.k = "to" THEN 2 ELSE 0

RECURSIVE SepRun(_, _, _)
SepRun(t, i, chars) ==
    IF SepChars(At(t, i)) = 0 THEN [j |-> i, chars |-> chars]
    ELSE SepRun(t, i + 1, chars + SepChars(At(t, i)))

\* [–—\-to]{1,3} from position i: the position after it, 0 for no match
AfterSep(t, i) ==
    LET r == SepRun(t, i, 0)
    IN  IF r.chars \in 1..3 THEN r.j ELSE 0

Single(v) == [kind |-> "single", lo |-> v, hi |-> 0]
Range(a, b) == [kind |-> "range", lo |-> a, hi |-> b]

\* \s*[:\-]?\s*(\d{2,5}) from position i: the position of the number, 0 for
\* no match
LabelledNumber(t, i) ==
    LET j1 == SkipSp(t, i)
        j2 == IF At(t, j1).k \in {"colon", "dash"} THEN j1 + 1 ELSE j1
        j3 == SkipSp(t, j2)
    IN  IF IsCount(t, j3) THEN j3 ELSE 0

\* (\d{2,5})\s*-\s*(\d{2,5})\s*words?
RangeDash(t, i) ==
    LET j == SkipSp(t, i + 1)
        k == SkipSp(t, j + 1)
        m == SkipSp(t, k + 1)
    IN  IF IsCount(t, i) /\ At(t, j).k = "dash" /\ IsCount(t, k) /\ IsWords(t, m)
        THEN Range(t[i].v, t[k].v) ELSE NoCount

\* (\d{2,5})\s*[–—\-to]{1,3}\s*(\d{2,5})\s*words?
RangeTo(t, i) ==
    LET j == AfterSep(t, SkipSp(t, i + 1))
        k == SkipSp(t, j)
        m == SkipSp(t, k + 1)
    IN  IF IsCount(t, i) /\ j # 0 /\ IsCount(t, k) /\ IsWords(t, m)
        THEN Range(t[i].v, t[k].v) ELSE NoCount

\* (\d{2,5})\s*words?\b
CountWords(t, i) ==
    LET j == SkipSp(t, i + 1)
    IN  IF IsCount(t, i) /\ IsWords(t, j) /\ At(t, j + 1).k \notin WordKinds
        THEN Single(t[i].v) ELSE NoCount

\* words?\s*[:\-]?\s*(\d{2,5})
WordsCount(t, i) ==
    LET k == LabelledNumber(t, i + 1)
    IN  IF IsWords(t, i) /\ k # 0 THEN Single(t[k].v) ELSE NoCount

\* word\s*count\s*[:\-]?\s*(\d{2,5})
WordCountLabel(t, i) ==
    LET j == SkipSp(t, i + 1)
        k == LabelledNumber(t, j + 1)
    IN  IF At(t, i).k = "word" /\ At(t, j).k = "count" /\ k # 0
        THEN Single(t[k].v) ELSE NoCount

\* \bwc\s*[:\-]?\s*(\d{2,5})\b
WcLabel(t, i) ==
    LET k == LabelledNumber(t, i + 1)
    IN  IF At(t, i).k = "wc" /\ At(t, i - 1).k \notin WordKinds /\ k # 0
           /\ At(t, k + 1).k \notin WordKinds
        THEN Single(t[k].v) ELSE NoCount

\* word\s*limit\s*(?:of\s*)?[:\-]?\s*(\d{2,5})(?:\s*[–—\-to]{1,3}\s*(\d{2,5}))?
WordLimit(t, i) ==
    LET j  == SkipSp(t, i + 1)
        j2 == SkipSp(t, j + 1)
        j3 == IF At(t, j2).k = "of" THEN SkipSp(t, j2 + 1) ELSE j2
        k  == LabelledNumber(t, j3)
        r  == AfterSep(t, SkipSp(t, k + 1))
        k2 == SkipSp(t, r)
    IN  IF At(t, i).k = "word" /\ At(t, j).k = "limit" /\ k # 0
        THEN IF r # 0 /\ IsCount(t, k2) THEN Range(t[k].v, t[k2].v) ELSE Single(t[k].v)
        ELSE NoCount

\* the match of pattern p of the list `patterns` that starts at position i
PatternAt(p, t, i) ==
    CASE p = 1 -> RangeDash(t, i)
      [] p = 2 -> RangeTo(t, i)
      [] p = 3 -> CountWords(t, i)
      [] p = 4 -> WordsCount(t, i)
      [] p = 5 -> WordCountLabel(t, i)
      [] p = 6 -> WcLabel(t, i)
      [] p = 7 -> WordLimit(t, i)

NumPatterns == 7

\* words per page
WORDS_PER_PAGE == 275

\* page_pat, (\d{1,3})(?:\s*[–—\-to]{1,3}\s*(\d{1,3}))?\s*pages?, at the
\* number of position i: of a longer number it matches the last three digits
PageAt(t, i) ==
    LET lo == At(t, i).v % 1000
        r  == AfterSep(t, SkipSp(t, i + 1))
        k  == SkipSp(t, r)
        m  == SkipSp(t, k + 1)
    IN  IF At(t, i).k # "num" THEN NoCount
        ELSE IF r # 0 /\ At(t, k).k = "num" /\ At(t, k).v < 1000 /\ At(t, m).k = "page"
        THEN IF At(t, k).v # 0
             THEN Range(lo * WORDS_PER_PAGE, At(t, k).v * WORDS_PER_PAGE)
             ELSE Single(lo * WORDS_PER_PAGE)
        ELSE IF At(t, SkipSp(t, i + 1)).k = "page" THEN Single(lo * WORDS_PER_PAGE)
        ELSE NoCount

Min(S) == CHOOSE x \in S : \A y \in S : x <= y

\* re.finditer(pat, text) for pattern p, scanning from position i
RECURSIVE MatchFrom(_, _, _)
MatchFrom(p, t, i) ==
    IF i > Len(t) THEN NoCount
    ELSE IF PatternAt(p, t, i) # NoCount THEN PatternAt(p, t, i)
    ELSE MatchFrom(p, t, i + 1)

\* the first match of re.finditer(pat, text) for pattern p
FirstMatch(p, t) == MatchFrom(p, t, 1)

\* page_pat.finditer(text), scanning from position i
RECURSIVE PageFrom(_, _)
PageFrom(t, i) ==
    IF i > Len(t) THEN NoCount
    ELSE IF PageAt(t, i) # NoCount THEN PageAt(t, i)
    ELSE PageFrom(t, i + 1)

FirstPage(t) == PageFrom(t, 1)

\* for pat in patterns, from pattern p on; the page pattern after the last
RECURSIVE FirstPattern(_, _)
FirstPattern(p, t) ==
    IF p > NumPatterns THEN FirstPage(t)
    ELSE IF FirstMatch(p, t) # NoCount THEN FirstMatch(p, t)
    ELSE FirstPattern(p + 1, t)

\* _extract_word_count_hint: the hint "lo" or "lo-hi", NoCount for None
extract_word_count_hint(text) ==
    CHOOSE r \in {FirstPattern(1, t) : t \in {normalize_commas(text)}} : TRUE

\* the numbers of the enumerated texts: one, three and four digits
HintNums == {4, 300, 2500}

Alphabet ==
    {Num(v) : v \in HintNums} \cup
    {Wd(k) : k \in {"word", "words", "page", "dash", "to", "sp", "other", "count",
                    "colon", "comma", "wc", "limit", "of"}}

\* two words are separated by a space or a mark, two numbers likewise, and
\* a number has at most five digits
WellFormed(t) ==
    /\ \A i \in 1..(Len(t) - 1) :
          /\ ~(t[i].k \in AlphaKinds /\ t[i + 1].k \in AlphaKinds)
          /\ ~(t[i].k = "num" /\ t[i + 1].k = "num")
    /\ \A i \in 1..Len(normalize_commas(t)) :
          normalize_commas(t)[i].k = "num" => normalize_commas(t)[i].v <= 99999

\* "Please write about 2,500 words on climate policy"
AboutWords ==
    <<Wd("other"), Wd("sp"), Wd("other"), Wd("sp"), Wd("other"), Wd("sp"),
      Num(2), Wd("comma"), Num(500), Wd("sp"), Wd("words"), Wd("sp"), Wd("other"),
      Wd("sp"), Wd("other"), Wd("sp"), Wd("other")>>

\* "a 4-page report"
FourPageReport ==
    <<Wd("other"), Wd("sp"), Num(4), Wd("dash"), Wd("page"), Wd("sp"), Wd("other")>>

\* phrases that match one pattern each
Phrases ==
    {<<Num(300), Wd("dash"), Num(2500), Wd("sp"), Wd("words")>>,
     <<Num(300), Wd("sp"), Wd("to"), Wd("sp"), Num(2500), Wd("sp"), Wd("words")>>,
     <<Num(2500), Wd("sp"), Wd("words")>>,
     <<Wd("words"), Wd("colon"), Wd("sp"), Num(300)>>,
     <<Wd("word"), Wd("sp"), Wd("count"), Wd("colon"), Wd("sp"), Num(2500)>>,
     <<Wd("wc"), Wd("sp"), Num(300)>>,
     <<Wd("word"), Wd("sp"), Wd("limit"), Wd("sp"), Wd("of"), Wd("sp"), Num(300),
       Wd("dash"), Num(2500)>>,
     <<Num(4), Wd("sp"), Wd("page")>>,
     <<Num(4), Wd("dash"), Num(300), Wd("sp"), Wd("page")>>,
     <<Num(4), Wd("dash"), Wd("page")>>,
     <<Wd("other")>>}

RECURSIVE SeqsUpTo(_)
SeqsUpTo(n) ==
    IF n = 0 THEN {<<>>}
    ELSE SeqsUpTo(n - 1) \cup
         {Append(t, a) : t \in {u \in SeqsUpTo(n - 1) : Len(u) = n - 1}, a \in Alphabet}

\* every text of at most MaxText tokens, the two texts of the examples, and
\* two phrases joined by a comma and a space
HintTexts ==
    {t \in SeqsUpTo(MaxText) : WellFormed(t)} \cup {AboutWords, FourPageReport} \cup
    {a \o <<Wd("comma"), Wd("sp")>> \o b : a \in Phrases, b \in Phrases}

InitHint ==
    /\ InitJob(NewJob)
    /\ outline = NoOutline
    /\ req = NoRequests
    /\ other = NoOther
    /\ draft = NoDraft
    /\ hint \in {[NoHint EXCEPT !.text = t] : t \in HintTexts}

\* one call of _extract_word_count_hint(text)
ExtractHint ==
    /\ hint.calls = 0
    /\ hint' = [hint EXCEPT !.result = extract_word_count_hint(hint.text), !.calls = 1]
    /\ UNCHANGED <<status, is_approved, art, last, ops, outline, req, other, draft>>

NextHint == ExtractHint

SpecHint == InitHint /\ [][NextHint]_vars
----------------------------------------------------------------------------
(* Structure generation: services.generate_job_structure, called with the  *)
(* payload that run_marketing_pipeline and generate_job_structure_view     *)
(* build from the approved summary                                         *)

\* f"Topic: {topic}; Word Count: {word_count}; Reference Style: ...;
\* Writing Style: ...; Job Summary: {summary_text}"
structure_payload(topic, word_count, summary_text) ==
    <<Wd("other"), Wd("colon"), Wd("sp")>> \o topic
    \o <<Wd("semi"), Wd("sp"), Wd("word"), Wd("sp"), Wd("count"), Wd("colon"), Wd("sp"),
         Num(word_count)>>
    \o <<Wd("semi"), Wd("sp"), Wd("other"), Wd("sp"), Wd("other"), Wd("colon"), Wd("sp"),
         Wd("other")>>
    \o <<Wd("semi"), Wd("sp"), Wd("other"), Wd("sp"), Wd("other"), Wd("colon"), Wd("sp"),
         Wd("other")>>
    \o <<Wd("semi"), Wd("sp"), Wd("other"), Wd("sp"), Wd("other"), Wd("colon"), Wd("sp")>>
    \o summary_text

\* target_wc: int(str(wc_hint).split("-")[0]), 0 for None
target_wc(text) ==
    LET h == extract_word_count_hint(text)
    IN  IF h = NoCount THEN 0 ELSE h.lo

\* topics and summary texts: without a number, and with a count, a range
\* and a page count of their own
PayloadTexts ==
    {<<Wd("other")>>,
     <<Wd("other"), Wd("sp"), Num(300), Wd("sp"), Wd("words")>>,
     <<Wd("other"), Wd("sp"), Num(300), Wd("dash"), Num(500), Wd("sp"), Wd("words")>>,
     <<Num(4), Wd("sp"), Wd("page"), Wd("sp"), Wd("other")>>}

\* word_count of the summary
WordCounts == {4, 1000, 2500}

\* the outlines the generation service answers with; <<>>: no answer
StructureResponses ==
    {<<>>, WorkedExample, IntroBodyConcl(2, 2, 2),
     Outline(Sections(9, <<[name |-> "plain", count |-> 9]>>, 9),
             [counts |-> <<2, 3>>, ignored |-> FALSE, deep |-> FALSE], FALSE),
     Outline(Sections(9, <<[name |-> "plain", count |-> 9]>>, 9),
             [counts |-> <<>>, ignored |-> FALSE, deep |-> FALSE], TRUE)}

InitStructure ==
    /\ InitJob(NewJob)
    /\ req = NoRequests
    /\ other = NoOther
    /\ draft = NoDraft
    /\ \E topic \in PayloadTexts, wc \in WordCounts, summary \in PayloadTexts :
          hint = [NoHint EXCEPT !.text = structure_payload(topic, wc, summary),
                                !.word_count = wc]
    /\ outline \in {NewOutline(text) : text \in StructureResponses}

\* generate_job_structure(structure_payload); outline.input is the answer
\* of the generation service, hint.word_count the total_word_count that the
\* caller stores with the returned text
generate_job_structure ==
    /\ hint.calls = 0
    /\ hint' = [hint EXCEPT !.result = extract_word_count_hint(hint.text), !.calls = 1]
    /\ IF outline.input = <<>>
       THEN outline' = outline
       ELSE LET t == target_wc(hint.text)
                r == rebalance_structure_text(outline.input, t)
            IN  outline' = [outline EXCEPT !.target = t, !.text = r.text,
                                           !.runs = 1, !.raised = r.raised]
    /\ UNCHANGED <<status, is_approved, art, last, ops, req, other, draft>>

NextStructure == generate_job_structure

SpecStructure == InitStructure /\ [][NextStructure]_vars
----------------------------------------------------------------------------
(* Draft generation: services.generate_content                             *)
(* A response of the generation service is described by what the function  *)
(* looks at: whether it is empty, where it carries a '#' (at the start of   *)
(* a line, as a markdown heading, or inside a line), and its word count     *)

\* the total of the structure text, 0 when it states none
DraftTargets == {0, 100}

\* word counts around the tolerance of a target of 100, and 0 for a response
\* that is markup only
DraftWords == {0, 97, 98, 100, 102, 103}

Hashes == {"none", "heading", "inline"}

Responses ==
    {[empty |-> FALSE, hash |-> h, words |-> w, id |-> 0] : h \in Hashes, w \in DraftWords}
        \cup {NoResponse}

\* the percentages of the target between which a draft is accepted
TOLERANCE_LOW == 98
TOLERANCE_HIGH == 102

\* _strip_markdown: the '#' that start a line go, any other '#' stays
strip_markdown(r) ==
    [r EXCEPT !.hash = IF @ = "heading" THEN "none" ELSE @]

\* needs_retry for the cleaned first response
needs_retry(target, cleaned) ==
    \/ target # 0 /\ (cleaned.words * 100 < TOLERANCE_LOW * target
                      \/ cleaned.words * 100 > TOLERANCE_HIGH * target)
    \/ cleaned.hash # "none"

\* a retry whose text is checked against the tolerance again and refused
RetryResult_checked(target, first, second) ==
    IF second.empty THEN strip_markdown(first)
    ELSE IF needs_retry(target, strip_markdown(second)) THEN NoResponse
    ELSE strip_markdown(second)

\* cleaned after the second call: the second response replaces the first
\* one when it is not empty
RetryResult(target, first, second) ==
    IF second.empty THEN strip_markdown(first) ELSE strip_markdown(second)

\* generate_content(job_structure_text); r1 and r2 are what the service
\* returns to the first and to the second call
generate_content(structure, target, r1, r2) ==
    /\ ~draft.done
    /\ draft' =
         IF ~structure
         THEN [NoDraft EXCEPT !.error = "Job Structure text is required.", !.done = TRUE]
         ELSE LET base == [NoDraft EXCEPT !.structure = TRUE, !.target = target,
                                          !.first = [r1 EXCEPT !.id = 1], !.done = TRUE]
                  f    == base.first
              IN  IF r1.empty
                  THEN [base EXCEPT !.calls = <<"structure">>,
                                    !.error = "Failed to generate academic content."]
                  ELSE IF ~needs_retry(target, strip_markdown(f))
                  THEN [base EXCEPT !.calls = <<"structure">>,
                                    !.result = strip_markdown(f)]
                  ELSE [base EXCEPT !.calls = <<"structure", "structure+reminder">>,
                                    !.second = [r2 EXCEPT !.id = 2],
                                    !.result = RetryResult(target, f, [r2 EXCEPT !.id = 2])]
    /\ UNCHANGED <<status, is_approved, art, last, ops, outline, req, other, hint>>

InitDraft ==
    /\ InitJob(NewJob)
    /\ outline = NoOutline
    /\ req = NoRequests
    /\ other = NoOther
    /\ hint = NoHint
    /\ draft = NoDraft

NextDraft ==
    \E st \in BOOLEAN, t \in DraftTargets, r1 \in Responses, r2 \in Responses :
        generate_content(st, t, r1, r2)

SpecDraft == InitDraft /\ [][NextDraft]_vars
----------------------------------------------------------------------------
(* Properties                                                              *)

Rank == STATUS_RANK(status)

\* the stages 1..n in order
UpTo(n) == [i \in 1..n |-> i]

\* stage k's text was created or regenerated by the step
Generated(k) == art'[k].text # art[k].text

\* C1: a call of sync_job_status never lowers the rank of job.status,
\* whatever the approvals of the artifacts and of the job are
C1_SyncRankNonDecreasing ==
    [][last'.op = "sync_job_status" => STATUS_RANK(status') >= STATUS_RANK(status)]_vars

\* sync_job_status has run on a job in REWORK whose summary is approved
C1_Witness ==
    /\ last.op = "sync_job_status"
    /\ status = "REWORK"
    /\ art[1].exists /\ art[1].approved

\* C2: sync_job_status leaves a REJECTED job REJECTED, whatever is approved
C2_RejectedSticky ==
    [][(status = "REJECTED" /\ last'.op = "sync_job_status") => status' = "REJECTED"]_vars

\* sync_job_status has run on a REJECTED job that is approved and whose
\* artifacts are approved
C2_Witness ==
    /\ last.op = "sync_job_status"
    /\ status = "REJECTED"
    /\ is_approved
    /\ \A k \in Stages : art[k].exists /\ art[k].approved

\* C3: no request of the pipeline controller lowers the rank of job.status;
\* only the commands of the external workflow may
C3_ControllerNeverLowersStatus ==
    [][last'.op # "external" => STATUS_RANK(status') >= STATUS_RANK(status)]_vars

\* C4: with a counter of 3 or more on any artifact, run_pipeline refuses to
\* start: budget error, no result, no generation call, no change of an
\* artifact or of job.status
C4_BudgetRefusal ==
    [][(last'.op = "run_pipeline" /\ \E k \in Stages : art[k].exists /\ art[k].count >= 3)
        => /\ ~last'.success
           /\ last'.error = "limit"
           /\ last'.results = <<>>
           /\ last'.calls = <<>>
           /\ art' = art
           /\ status' = status]_vars

\* run_pipeline was refused on a job whose artifacts reached the counter 3
C4_Witness ==
    /\ last.op = "run_pipeline"
    /\ last.error = "limit"
    /\ \E k \in Stages : art[k].exists /\ art[k].count = 3

\* C5: a run whose first failing generation is stage k returns the k-1
\* successes of the earlier stages in order and stage k's error, and has
\* issued the generation calls of the stages 1..k and no other
C5_ShortCircuit ==
    (last.op = "run_pipeline" /\ last.stage \in Stages)
    => /\ ~last.success
       /\ last.error = "generation"
       /\ last.results = UpTo(last.stage - 1)
       /\ last.calls = UpTo(last.stage)

\* a run failed at CONTENT with exactly the two earlier successes
C5_Witness ==
    /\ last.op = "run_pipeline"
    /\ last.stage = 3
    /\ last.error = "generation"
    /\ last.results = <<1, 2>>
    /\ last.calls = <<1, 2, 3>>

\* C6: after a run that fails at stage k, the artifacts before k hold the
\* text and the approval this run wrote, and the artifacts of stage k and
\* of the later stages are what they were before the run
C6_NoRollbackFrame ==
    [][(last'.op = "run_pipeline" /\ last'.error = "generation")
        => \A j \in Stages :
             /\ j < last'.stage =>
                  /\ art'[j].exists
                  /\ art'[j].text = art[j].text + 1
                  /\ (j # FULL_CONTENT => art'[j].approved)
             /\ j >= last'.stage => art'[j] = art[j]]_vars

\* a re-run over existing artifacts failed at CONTENT: the summary and the
\* structure hold their second text, the content its first
C6_Witness ==
    /\ last.op = "run_pipeline"
    /\ last.error = "generation"
    /\ last.stage = 3
    /\ art[1].text = 2 /\ art[2].text = 2
    /\ art[3].exists /\ art[3].text = 1 /\ art[3].count = 0

\* C7 as claimed: whenever an artifact of a stage k other than SUMMARY is
\* created or regenerated, the artifact of stage k-1 exists and is approved
C7_PredecessorApproved ==
    [][\A k \in 2..NumStages :
         Generated(k) => (art'[k - 1].exists /\ art'[k - 1].approved)]_vars

\* C7 as amended: STRUCTURE..FULL_CONTENT need the approved predecessor;
\* the two reports need the merged document, which is approved when a
\* step-by-step view generates them and need not be inside a pipeline run
C7_PredecessorAmended ==
    [][/\ \A k \in 2..FULL_CONTENT :
            Generated(k) => (art'[k - 1].exists /\ art'[k - 1].approved)
       /\ \A k \in {PLAGIARISM, AI_REPORT} :
            Generated(k) =>
              /\ art'[FULL_CONTENT].exists
              /\ (last'.op # "run_pipeline" => art'[FULL_CONTENT].approved)]_vars

\* the content view has regenerated the draft of a job whose structure is
\* approved
C7_Witness ==
    /\ last.op = "generate_content_view"
    /\ last.success
    /\ art[2].approved
    /\ art[3].text = 2

\* C8: after a successful run the merged document is not approved
C8_FullContentUnapproved ==
    (last.op = "run_pipeline" /\ last.success) => ~art[FULL_CONTENT].approved

\* C9: the counter of every artifact stays within 0..3
C9_CounterWithinCap ==
    \A k \in Stages : art[k].count \in 0..3

\* the outline has at least one non-ignored top-level section and a
\* positive count sum
Parsed(text) ==
    /\ mains(text) # {}
    /\ SumOver(natural_counts(text), MainNums(text)) > 0

\* the sum of the counts written on the non-ignored top-level sections
TopLevelSum(text) == SumOver([i \in mains(text) |-> text[i].count], mains(text))

\* the text has a Total Word Count line and it shows n
ShowsTotal(text, n) ==
    /\ total_idx(text) # 0
    /\ text[total_idx(text)].count = n

\* C10: for a parsed outline and a positive target T, after the allocator
\* has run the counts of the non-ignored top-level sections sum to exactly
\* T and the Total Word Count line shows T
C10_SumEqualsTarget ==
    (outline.runs = 1 /\ outline.target > 0 /\ Parsed(outline.input))
        => /\ ~outline.raised
           /\ TopLevelSum(outline.text) = outline.target
           /\ ShowsTotal(outline.text, outline.target)

\* C11: a second run of the allocator on its own result with the same target
\* returns that result unchanged: no section count and no Total Word Count
\* line changes
C11_Idempotent ==
    [][(outline.runs = 1 /\ outline'.runs = 2)
        => (~outline'.raised /\ outline'.text = outline.text)]_vars

\* the non-ignored lines "n.m.k ..." under the line "n.m ..."
DeepChildren(text, i) ==
    {j \in DOMAIN text : /\ text[j].kind = "deep"
                         /\ text[j].num = text[i].num
                         /\ text[j].sub = text[i].sub
                         /\ ~is_ignored(text[j])}

\* every non-ignored section with children carries the sum of the counts of
\* its non-ignored children, at the levels n / n.m and n.m / n.m.k
ParentsMatch(text) ==
    \A i \in DOMAIN text :
        /\ (i \in mains(text) /\ subs(text, text[i].num) # {})
            => text[i].count =
                 SumOver(SubCounts(text, text[i].num), subs(text, text[i].num))
        /\ (text[i].kind = "sub" /\ ~is_ignored(text[i])
            /\ DeepChildren(text, i) # {})
            => text[i].count =
                 SumOver([j \in DeepChildren(text, i) |-> text[j].count],
                         DeepChildren(text, i))

\* C12: after allocation every section with children, at any of the three
\* numbering levels, has the sum of its non-ignored children's counts
C12_ParentEqualsChildren ==
    (outline.runs = 1 /\ ~outline.raised /\ Parsed(outline.input))
        => ParentsMatch(outline.text)

\* the top-level sections of the text are Introduction, Body, Conclusion
IsIntroBodyConcl(text) ==
    LET H == {i \in DOMAIN text : text[i].kind = "main"}
    IN  /\ Cardinality(H) = 3
        /\ {text[i].name : i \in H} = {"intro", "plain", "concl"}

\* the count written on the top-level section of that name
CountOf(text, name) ==
    text[CHOOSE i \in DOMAIN text :
            text[i].kind = "main" /\ text[i].name = name].count

IntroConclBand(text) ==
    /\ CountOf(text, "intro") \in 80..120
    /\ CountOf(text, "concl") \in 80..120

\* C13 as claimed: for Introduction, Body, Conclusion with arbitrary declared
\* counts and the target 1000, the allocator returns Introduction and
\* Conclusion counts within 80..120
C13_IntroConclBand ==
    (outline.runs = 1 /\ outline.target = 1000 /\ IsIntroBodyConcl(outline.input))
        => (~outline.raised /\ IntroConclBand(outline.text))

\* C13 as amended: the same for declared counts with a positive sum; an
\* outline whose counts are all 0 is returned unchanged
C13_IntroConclBandParsed ==
    (outline.runs = 1 /\ outline.target = 1000
     /\ IsIntroBodyConcl(outline.input) /\ Parsed(outline.input))
        => (~outline.raised /\ IntroConclBand(outline.text))

\* the allocator has run with the target 1000 on Introduction 2, Body 2,
\* Conclusion 0 words
C13_Witness ==
    /\ outline.runs = 1
    /\ outline.target = 1000
    /\ outline.input = IntroBodyConcl(2, 2, 0)
    /\ CountOf(outline.text, "intro") = 100
    /\ CountOf(outline.text, "concl") = 100

\* C14: the worked example with the target 1000 gives Introduction 100,
\* Body 800 with Background 320 and Analysis 480, Conclusion 100, and a
\* line "Total Word Count: 1000"
C14_WorkedExample ==
    (outline.runs = 1 /\ outline.target = 1000 /\ outline.input = WorkedExample)
        => /\ ~outline.raised
           /\ ShowsTotal(outline.text, 1000)
           /\ [i \in 1..5 |->
                 SelectSeq(outline.text, LAMBDA ln : ln.kind # "total")[i].count]
              = <<100, 800, 320, 480, 100>>
           /\ Len(outline.text) = 6

\* the allocator has run on the worked example with the target 1000
C14_Witness ==
    /\ outline.runs = 1
    /\ outline.target = 1000
    /\ outline.input = WorkedExample
    /\ outline.text # outline.input

\* the sum of the top-level counts as the parse takes them
NaturalSum(text) == SumOver(natural_counts(text), MainNums(text))

\* C15: without a target the top-level counts after allocation sum to the
\* natural sum before it, the Introduction/Conclusion policy included
C15_NaturalTotalPreserved ==
    (outline.runs = 1 /\ outline.target = 0 /\ ~outline.raised
     /\ Parsed(outline.input))
        => TopLevelSum(outline.text) = NaturalSum(outline.input)

\* the status of maximum rank among st and the statuses of the stages whose
\* artifacts are approved
MaxRankStatus(st, arts) ==
    LET cand == {st} \cup {PIPELINE_STATUS_ORDER[k] :
                            k \in {j \in Stages : arts[j].exists /\ arts[j].approved}}
    IN  CHOOSE s \in cand : \A t \in cand : STATUS_RANK(s) >= STATUS_RANK(t)

\* C18 as claimed: on a job that is not REJECTED, sync_job_status sets the
\* status of maximum rank among the current status and the statuses of the
\* approved stages, and nothing else influences the result
C18_SyncExact ==
    [][(last'.op = "sync_job_status" /\ status \notin TERMINAL_STATUSES)
        => status' = MaxRankStatus(status, art)]_vars

\* C18 as amended: the same when job.is_approved is false; when
\* job.is_approved is true the result is APPROVED
C18_SyncExactOrJobApproved ==
    [][(last'.op = "sync_job_status" /\ status \notin TERMINAL_STATUSES)
        => status' = IF is_approved THEN "APPROVED"
                     ELSE MaxRankStatus(status, art)]_vars

\* sync_job_status has run on a job that is not approved and whose furthest
\* approved artifact is the reference list
C18_Witness ==
    /\ last.op = "sync_job_status"
    /\ ~is_approved
    /\ status = "REFERENCES"
    /\ art[4].exists /\ art[4].approved
    /\ ~art[5].exists

\* the generate views of the seven stages
GenerateOps ==
    {"generate_job_summary_view", "generate_job_structure_view",
     "generate_content_view", "generate_references_view",
     "generate_full_content_view", "generate_plagiarism_report",
     "generate_ai_report"}

C20_CounterIncrements ==
    [][\A k \in Stages :
         /\ art'[k].count >= art[k].count
         /\ art'[k].count # art[k].count
            => (art'[k].count = art[k].count + 1 /\ Generated(k))]_vars

\* a re-run has regenerated the summary, whose counter went from 0 to 1,
\* and failed at the structure, whose counter is still 0
C20_Witness ==
    /\ last.op = "run_pipeline"
    /\ last.error = "generation"
    /\ last.stage = 2
    /\ art[1].count = 1
    /\ art[2].exists /\ art[2].count = 0

\* the requests that have saved their copy
SavedReqs == {r \in Reqs : req[r].pc = "saved"}

\* the requests that have called the generation service
CalledReqs == {r \in Reqs : req[r].pc \in {"generated", "failed", "saved"}}

\* C16: requests for one artifact that loaded the same counter value all pass
\* the limit check on that value and all call the generation service, and
\* when they have saved, the stored counter is that value plus one, however
\* many they are: the counter does not bound the generations performed
C16_LostUpdate ==
    /\ \A r \in CalledReqs : req[r].row.count < 3
    /\ \A c \in 0..MaxCount :
         (SavedReqs # {} /\ \A r \in SavedReqs : req[r].row.count = c)
            => art[1].count = c + 1

\* two requests loaded the counter at 2, both generated and saved, and the
\* stored counter is 3 after four generations of the summary
C16_Witness ==
    /\ Cardinality(SavedReqs) >= 2
    /\ \A r \in SavedReqs : req[r].row.count = 2
    /\ art[1].count = 3

\* C17: whatever requests are handled for the first job, in any interleaving
\* with the requests for the second job, the status, the artifacts, the
\* approvals and the counters of the second job are those it has when only
\* its own requests are handled
C17_JobsIsolated ==
    other.job = other.solo

\* both jobs have been run: the first one failed at CONTENT and keeps two
\* artifacts, the second one completed after it
C17_Witness ==
    /\ last.op = "run_pipeline"
    /\ art[2].exists /\ ~art[3].exists
    /\ other.job.art[AI_REPORT].exists
    /\ other.job.status # status

\* C21: a run_pipeline request that fails leaves the job with a status that
\* ranks at least as high as the status the job had before the request
C21_FailedRunRestoresStatus ==
    [][(last'.op = "run_pipeline" /\ ~last'.success /\ ops' = ops + 1 /\ other' = other)
          => STATUS_RANK(status') >= STATUS_RANK(status)]_vars

\* the stages whose artifact a generate view of stage k requires
Predecessors(k) ==
    IF k = 1 THEN {}
    ELSE IF k = FULL_CONTENT THEN {3, 4}
    ELSE IF k > FULL_CONTENT THEN {FULL_CONTENT}
    ELSE {k - 1}

PredecessorUnmet(k) ==
    \E p \in Predecessors(k) : ~art[p].exists \/ ~art[p].approved

\* C22: a generate view called for a stage whose predecessor artifact is
\* missing or unapproved answers with a precondition error and changes
\* neither the status nor any artifact
C22_PreconditionReported ==
    [][(ops' = ops + 1 /\ other' = other /\ last'.stage \in Stages
          /\ last'.op \in GenerateOps
          /\ PredecessorUnmet(last'.stage))
          => (last'.error = "precondition" /\ art' = art /\ status' = status)]_vars

\* some pattern of the class matches somewhere in the text
MatchesAny(ps, t) == \E p \in ps : FirstMatch(p, normalize_commas(t)) # NoCount

\* the result is the first match of the first class, in the order range,
\* single count, labelled count, page count, that matches the text
InPriorityOrder(t, r) ==
    LET n == normalize_commas(t)
    IN  IF MatchesAny({1, 2}, t)
        THEN r = (IF FirstMatch(1, n) # NoCount THEN FirstMatch(1, n) ELSE FirstMatch(2, n))
        ELSE IF MatchesAny({3}, t) THEN r = FirstMatch(3, n)
        ELSE IF MatchesAny(4..NumPatterns, t)
        THEN r = FirstMatch(Min({p \in 4..NumPatterns : FirstMatch(p, n) # NoCount}), n)
        ELSE r = FirstPage(n)

\* C23: the hint is the first match in the order range, single count,
\* labelled count, page count at 275 words per page, and none when nothing
\* matches; "Please write about 2,500 words on climate policy" gives "2500"
\* and "a 4-page report" gives "1100"
C23_HintPriorityAndExamples ==
    hint.calls = 1 =>
        /\ InPriorityOrder(hint.text, hint.result)
        /\ hint.text = AboutWords => hint.result = Single(2500)
        /\ hint.text = FourPageReport => hint.result = Single(1100)

\* C24: whenever the first response for the draft carries a '#',
\* generate_content issues exactly one more call, with the reminder appended
\* to the structure text
C24_HashForcesOneRetry ==
    (draft.done /\ draft.structure /\ ~draft.first.empty /\ draft.first.hash # "none")
        => draft.calls = <<"structure", "structure+reminder">>

\* C25: generate_content issues at most two calls, and once the first call
\* has returned a text it returns a draft and no error: the second response
\* when there was a second call and its response is not empty, whether or
\* not that response is within the tolerance, otherwise the first response
C25_BestEffortDraft ==
    /\ Len(draft.calls) <= 2
    /\ (draft.done /\ draft.structure /\ ~draft.first.empty) =>
          /\ draft.error = "none"
          /\ draft.result.id = (IF Len(draft.calls) = 2 /\ ~draft.second.empty THEN 2 ELSE 1)
          /\ draft.result.words =
               (IF draft.result.id = 2 THEN draft.second.words ELSE draft.first.words)

\* the first response was too short, the second one is too long and is
\* returned without an error
C25_Witness ==
    /\ draft.done /\ draft.target = 100
    /\ draft.first.words = 97 /\ draft.second.words = 103
    /\ Len(draft.calls) = 2
    /\ draft.result.id = 2 /\ draft.error = "none"

NotIgnored(ln) == ~is_ignored(ln)

\* C26: the allocator returns the lines of the ignored vocabulary as they
\* were, count included, and the other lines as it returns them for the
\* text without the ignored lines: an ignored line enters no sum, neither a
\* parent's nor the top-level total nor the Total Word Count line
C26_IgnoredUntouched ==
    [][(outline'.runs = outline.runs + 1) =>
         LET alone == rebalance_structure_text(SelectSeq(outline.text, NotIgnored),
                                               outline'.target)
         IN  /\ SelectSeq(outline'.text, is_ignored) = SelectSeq(outline.text, is_ignored)
             /\ SelectSeq(outline'.text, NotIgnored) = alone.text
             /\ outline'.raised = alone.raised]_vars

\* the allocator has rescaled an outline to 1000 words that has an ignored
\* top-level section of 9 words and an ignored child of 3 words: both keep
\* their counts and the total line shows 1000
C26_Witness ==
    /\ outline.runs = 1 /\ ~outline.raised /\ outline.target = 1000
    /\ ShowsTotal(outline.text, 1000)
    /\ \E i \in DOMAIN outline.text :
          /\ outline.text[i].kind = "main" /\ is_ignored(outline.text[i])
          /\ outline.text[i].count = 9
    /\ \E i \in DOMAIN outline.text :
          /\ outline.text[i].kind = "sub" /\ is_ignored(outline.text[i])
          /\ outline.text[i].count = 3

\* the requests whose sequential run is active
RunningReqs == {r \in Reqs : req[r].pc = "running"}

\* C27: at most one sequential run of a job is active at a time: no
\* run_pipeline request starts a run while another one is between writing
\* IN_PROGRESS and finishing
C27_OneRunAtATime ==
    Cardinality(RunningReqs) <= 1

\* C28: a run_pipeline request that is handled alone ends with a status of
\* the job other than IN_PROGRESS, whether its run succeeded, failed or
\* raised an exception
C28_RunEndsNotInProgress ==
    [][\A r \in Reqs :
         (req[r].pc # "done" /\ req'[r].pc = "done"
          /\ \A q \in Reqs \ {r} : req[q].pc \in {"idle", "done", "refused"})
            => status' # "IN_PROGRESS"]_vars

\* C29: after a successful structure generation the Total Word Count line
\* of the returned text shows the word_count of the summary, which is the
\* total_word_count stored with it, whatever numbers the topic and the
\* summary text hold
C29_TotalIsSummaryWordCount ==
    (hint.calls = 1 /\ outline.runs = 1 /\ ~outline.raised)
        => ShowsTotal(outline.text, hint.word_count)

\* C30: from a job with no artifacts and with runs of the pipeline in
\* sequence only, a run that succeeds adds exactly 1 to the counter of every
\* artifact that exists and creates every missing artifact with counter 0;
\* at most MARKETING_GENERATION_LIMIT + 1 = 4 runs succeed, and every call
\* after the fourth is refused by the budget check and changes no artifact
C30_FourRunsInSequence ==
    [][last'.op = "run_pipeline" =>
         /\ last'.success =>
              /\ ops' = ops + 1
              /\ ops' <= MARKETING_GENERATION_LIMIT + 1
              /\ \A k \in Stages :
                   /\ art'[k].exists
                   /\ art'[k].count = IF art[k].exists THEN art[k].count + 1 ELSE 0
         /\ ops = MARKETING_GENERATION_LIMIT + 1 =>
              (~last'.success /\ last'.error = "limit" /\ art' = art /\ ops' = ops)]_vars

\* four runs have succeeded, the last call was refused by the budget check
C30_Witness ==
    /\ ops = MARKETING_GENERATION_LIMIT + 1
    /\ last.op = "run_pipeline" /\ last.error = "limit"
    /\ \A k \in Stages : art[k].exists /\ art[k].count = MARKETING_GENERATION_LIMIT

====
